---- MODULE Spec2Model ----
(***************************************************************************)
(* Airtable-backed retrieval plugin (server/main.py).                      *)
(*                                                                         *)
(* One inbound HTTP request is followed from its arrival to its response.  *)
(* Every outbound Airtable call of the handler is one step; what Airtable  *)
(* answers (success or failure, and the payload) is chosen by the          *)
(* environment.  `calls` records the outbound calls of the request in the  *)
(* order they were issued, `airtable` is the content of the Airtable       *)
(* tables.                                                                 *)
(***************************************************************************)
EXTENDS Integers, Sequences, FiniteSets, TLC

\* ------------------------------------------------------------------ bounds
MaxListing == 2
MaxQueries == 2
MaxDocuments == 2
MaxIds == 2
MaxRecords == 2

\* ------------------------------------------------------- program constants
BEARER_TOKEN == "secret"
FIELD_TO_SEARCH == "YourActualFieldNameHere"

\* ------------------------------------------------------------ input values
BaseIds == {1, 2}
TableIds == {1, 2}
RecordIds == {1, 2}
Schemes == {"Bearer", "bearer", "Basic"}
Tokens == {"secret", "wrong"}
Texts == {"hello", "xyz"}
Documents ==
    { [id |-> "d1", text |-> "hello world", metadata |-> "m1"],
      [id |-> "d2", text |-> "xyz", metadata |-> "m2"] }

SeqsUpTo(S, n) == UNION { [1..k -> S] : k \in 0..n }

\* Name of a table as Airtable's metadata reports it.
TableName(t) == IF t = 1 THEN "Docs" ELSE "Notes"

\* Id Airtable gives to the k-th record of a response for table t of base b.
NewId(b, t, k) == 100 * b + 10 * t + k

\* Fields of the k-th record of a table: the odd ones have the searched field
\* and the metadata, the even ones have neither.
StoredFields(k) ==
    IF k % 2 = 1
    THEN [f \in {FIELD_TO_SEARCH, "Metadata"} |->
             IF f = "Metadata" THEN "meta" ELSE "hello world"]
    ELSE [f \in {"Other"} |-> "n/a"]

\* The initial content of Airtable: every table holds every RecordIds record.
InitialAirtable ==
    { <<b, TableName(t), r>> : b \in BaseIds, t \in TableIds, r \in RecordIds }

Requests ==
    { [op |-> "query", scheme |-> s, credentials |-> c, queries |-> q,
       documents |-> <<>>, ids_given |-> FALSE, ids |-> <<>>] :
         s \in Schemes, c \in Tokens,
         q \in SeqsUpTo({ [query |-> t] : t \in Texts }, MaxQueries) }
    \cup
    { [op |-> "upsert", scheme |-> s, credentials |-> c, queries |-> <<>>,
       documents |-> d, ids_given |-> FALSE, ids |-> <<>>] :
         s \in Schemes, c \in Tokens, d \in SeqsUpTo(Documents, MaxDocuments) }
    \cup
    { [op |-> "delete", scheme |-> s, credentials |-> c, queries |-> <<>>,
       documents |-> <<>>, ids_given |-> TRUE, ids |-> i] :
         s \in Schemes, c \in Tokens, i \in SeqsUpTo(RecordIds, MaxIds) }
    \cup
    { [op |-> "delete", scheme |-> s, credentials |-> c, queries |-> <<>>,
       documents |-> <<>>, ids_given |-> FALSE, ids |-> <<>>] :
         s \in Schemes, c \in Tokens }

NoRequest ==
    [op |-> "none", scheme |-> "", credentials |-> "", queries |-> <<>>,
     documents |-> <<>>, ids_given |-> FALSE, ids |-> <<>>]

\* ------------------------------------------------------------------- state
VARIABLES
    pc,          \* position of the request: idle, validate_token,
                 \* delete_check, get_all_bases, get_all_tables, data,
                 \* return, done
    request,     \* the inbound request
    bases,       \* keys of the dict get_all_bases() returned, in dict order
    tables,      \* keys of the dict get_all_tables(base_id) returned
    bi, ti, ri,  \* positions of the three nested for loops
    query_text,  \* local of query()
    results,     \* local of upsert() and query()
    deleted,     \* local of delete()
    response,    \* the HTTP response sent, status 0 while none is sent
    responded,   \* number of responses produced for the request
    calls,       \* outbound Airtable calls of the request, in issue order
    airtable     \* records held by Airtable: <<base, table name, record id>>

vars == <<pc, request, bases, tables, bi, ti, ri, query_text, results,
          deleted, response, responded, calls, airtable>>

loopVars == <<bases, tables, bi, ti, ri>>

NoResponse  == [status |-> 0, ids |-> <<>>, results |-> <<>>, success |-> FALSE]
HTTPError(code) ==
    [status |-> code, ids |-> <<>>, results |-> <<>>, success |-> FALSE]

\* One entry of `calls`.
Call(kind, method, b, tn, r, param, ok, ret) ==
    [kind |-> kind, method |-> method, base |-> b, table |-> tn, rec |-> r,
     param |-> param, ok |-> ok, ret |-> ret]

\* ----------------------------------------------------------- pure helpers
\* Keys of a dict comprehension over a listing, in insertion order: a key
\* that occurs again keeps its first position.
RECURSIVE DictKeys(_)
DictKeys(s) ==
    IF s = <<>> THEN <<>>
    ELSE LET front == DictKeys(SubSeq(s, 1, Len(s) - 1))
             last  == s[Len(s)]
         IN  IF \E i \in 1..Len(front) : front[i] = last
             THEN front
             ELSE Append(front, last)

\* dict.get(key, default)
Get(fields, key, default) ==
    IF key \in DOMAIN fields THEN fields[key] ELSE default

EmptyDict == "{}"

\* The guard without the scheme test.
TokenValid_tokenOnly(scheme, credentials) == credentials = BEARER_TOKEN

TokenValid(scheme, credentials) ==
    ~ (scheme # "Bearer" \/ credentials # BEARER_TOKEN)

Init ==
    /\ pc = "idle"
    /\ request = NoRequest
    /\ bases = <<>>
    /\ tables = <<>>
    /\ bi = 1
    /\ ti = 1
    /\ ri = 1
    /\ query_text = ""
    /\ results = <<>>
    /\ deleted = 0
    /\ response = NoResponse
    /\ responded = 0
    /\ calls = <<>>
    /\ airtable = InitialAirtable

\* An HTTP request arrives.
ReceiveRequest ==
    /\ pc = "idle"
    /\ \E req \in Requests : request' = req
    /\ pc' = "validate_token"
    /\ UNCHANGED <<loopVars, query_text, results, deleted, response,
                   responded, calls, airtable>>

\* The dependency every route runs first.
ValidateTokenOf(req) ==
    /\ pc = "validate_token"
    /\ IF TokenValid(req.scheme, req.credentials)
       THEN /\ pc' = IF req.op = "delete" THEN "delete_check"
                     ELSE "get_all_bases"
            /\ UNCHANGED <<response, responded>>
       ELSE /\ pc' = "done"
            /\ response' = HTTPError(401)
            /\ responded' = responded + 1
    /\ UNCHANGED <<request, loopVars, query_text, results, deleted, calls,
                   airtable>>

ValidateToken == ValidateTokenOf(request)

\* Airtable's record -> result of the plugin (query, the loop body).
ResultOf(rec) ==
    [id |-> rec.id,
     text |-> Get(rec.fields, FIELD_TO_SEARCH, ""),
     metadata |-> Get(rec.fields, "Metadata", EmptyDict)]

\* Document of the request -> Airtable record payload (upsert, the loop body).
RecordOf(doc) ==
    [fields |-> [DocumentID |-> doc.id, Text |-> doc.text,
                 Metadata |-> <<"str", doc.metadata>>]]

\* The filterByFormula parameter of the filtered fetch.
Formula(text) == <<"FIND", text, FIELD_TO_SEARCH>>

\* The last query of the batch instead of the first.
QueryText_last(req) == req.queries[Len(req.queries)].query

\* request.queries[0].query
QueryText(req) == req.queries[1].query

\* `if request.ids is None`: an empty list passes.
IdsMissing_absentOnly(req) == ~ req.ids_given

\* `if not request.ids`
IdsMissing(req) == ~ req.ids_given \/ req.ids = <<>>

\* success only when more than one delete succeeded.
DeleteSuccess_many(n) == n > 1

\* DeleteResponse(success=deleted > 0)
DeleteSuccess(n) == n > 0

\* What Airtable can answer to a filtered fetch of table t of base b.
FetchResponses(b, t) ==
    { [k \in 1..n |-> [id |-> NewId(b, t, k), fields |-> StoredFields(k)]] :
        n \in 0..MaxRecords }

\* What Airtable answers to a successful batch create of n records.
CreateResponse(b, t, n) == [k \in 1..n |-> NewId(b, t, k)]

Position(p, b, t, r) == [pc |-> p, bi |-> b, ti |-> t, ri |-> r]

\* Where the loops stand once the body for the current table has finished.
AfterTable ==
    IF ti < Len(tables) THEN Position("data", bi, ti + 1, 1)
    ELSE IF bi < Len(bases) THEN Position("get_all_tables", bi + 1, 1, 1)
    ELSE Position("return", bi, ti, ri)

\* Where the loops stand once the body for the current record id has finished.
AfterRecord ==
    IF ri < Len(request.ids) THEN Position("data", bi, ti, ri + 1)
    ELSE AfterTable

\* An except clause that rolls the request's creations back.
UpsertExcept_rollback(log, store) ==
    [calls |-> log, airtable |-> InitialAirtable]

\* What the except clause of upsert() does to Airtable: it logs, no call.
UpsertExcept(log, store) == [calls |-> log, airtable |-> store]

\* `results = ids` instead of results.extend(ids).
Extend_overwrite(res, ids) == ids

\* results.extend(ids)
Extend(res, ids) == res \o ids

\* A handler that goes on after its response.
AfterResponse_again == "get_all_bases"

\* A return or a raised exception ends the handler.
AfterResponse == "done"

\* The except clauses: the error is logged, the loop goes on.
AfterPostFailure == AfterTable

\* A failed fetch that ends the enumeration.
AfterFetchFailure_abort == Position("return", bi, ti, ri)

AfterFetchFailure == AfterTable

\* A failed delete that leaves the id loop of the table.
AfterDeleteFailure_break == AfterTable

AfterDeleteFailure == AfterRecord

\* `if not request.ids: raise HTTPException(400)` of delete().
DeleteCheckOf(req) ==
    /\ pc = "delete_check"
    /\ IF IdsMissing(req)
       THEN /\ pc' = "done"
            /\ response' = HTTPError(400)
            /\ responded' = responded + 1
       ELSE /\ pc' = "get_all_bases"
            /\ UNCHANGED <<response, responded>>
    /\ UNCHANGED <<request, loopVars, query_text, results, deleted, calls,
                   airtable>>

DeleteCheck == DeleteCheckOf(request)

\* bases = get_all_bases(), and the statements up to the first loop test.
GetAllBasesOf(req) ==
    /\ pc = "get_all_bases"
    /\ \E ok \in BOOLEAN, listing \in SeqsUpTo(BaseIds, MaxListing) :
         LET keys == IF ok THEN DictKeys(listing) ELSE <<>>
             raised == ~ ok \/ (req.op = "query" /\ req.queries = <<>>)
         IN  /\ ok \/ listing = <<>>
             /\ calls' = Append(calls,
                    Call("bases", "GET", 0, "", 0, <<>>, ok, keys))
             /\ IF raised
                THEN /\ pc' = "done"
                     /\ response' = HTTPError(500)
                     /\ responded' = responded + 1
                     /\ bases' = IF ok THEN keys ELSE bases
                     /\ UNCHANGED <<query_text>>
                ELSE /\ bases' = keys
                     /\ query_text' = IF req.op = "query"
                                      THEN QueryText(req) ELSE query_text
                     /\ pc' = IF Len(keys) > 0 THEN "get_all_tables"
                              ELSE "return"
                     /\ UNCHANGED <<response, responded>>
    /\ bi' = 1
    /\ results' = <<>>
    /\ deleted' = 0
    /\ UNCHANGED <<request, tables, ti, ri, airtable>>

GetAllBases == GetAllBasesOf(request)

\* tables = get_all_tables(base_id), and the inner loop tests.
GetAllTables ==
    /\ pc = "get_all_tables"
    /\ \E ok \in BOOLEAN, listing \in SeqsUpTo(TableIds, MaxListing) :
         LET keys == IF ok THEN DictKeys(listing) ELSE <<>>
         IN  /\ ok \/ listing = <<>>
             /\ calls' = Append(calls,
                    Call("tables", "GET", bases[bi], "", 0, <<>>, ok, keys))
             /\ IF ~ ok
                THEN /\ pc' = "done"
                     /\ response' = HTTPError(500)
                     /\ responded' = responded + 1
                     /\ UNCHANGED <<tables, bi, ti, ri>>
                ELSE /\ tables' = keys
                     /\ IF Len(keys) > 0
                        THEN /\ pc' = "data"
                             /\ ti' = 1
                             /\ ri' = 1
                             /\ bi' = bi
                        ELSE /\ pc' = IF bi < Len(bases)
                                      THEN "get_all_tables" ELSE "return"
                             /\ bi' = IF bi < Len(bases) THEN bi + 1 ELSE bi
                             /\ UNCHANGED <<ti, ri>>
                     /\ UNCHANGED <<response, responded>>
    /\ UNCHANGED <<request, bases, query_text, results, deleted, airtable>>

\* The body of upsert()'s table loop: one batch create.
UpsertPostOf(req) ==
    /\ pc = "data"
    /\ req.op = "upsert"
    /\ \E ok \in BOOLEAN :
         LET b == bases[bi]
             t == tables[ti]
             records == [k \in 1..Len(req.documents) |->
                            RecordOf(req.documents[k])]
             ids == IF ok THEN CreateResponse(b, t, Len(records)) ELSE <<>>
             nxt == IF ok THEN AfterTable ELSE AfterPostFailure
             log == Append(calls,
                    Call("data", "POST", b, TableName(t), 0, records, ok, ids))
             exc == UpsertExcept(log, airtable)
         IN  /\ calls' = IF ok THEN log ELSE exc.calls
             /\ airtable' = IF ok
                            THEN airtable \cup { <<b, TableName(t), ids[k]>> :
                                                    k \in 1..Len(ids) }
                            ELSE exc.airtable
             /\ results' = IF ok THEN Extend(results, ids) ELSE results
             /\ pc' = nxt.pc
             /\ bi' = nxt.bi
             /\ ti' = nxt.ti
             /\ ri' = nxt.ri
    /\ UNCHANGED <<request, bases, tables, query_text, deleted, response,
                   responded>>

UpsertPost == UpsertPostOf(request)

\* The body of query()'s table loop: one filtered fetch.
QueryGetOf(req) ==
    /\ pc = "data"
    /\ req.op = "query"
    /\ \E ok \in BOOLEAN, recs \in FetchResponses(bases[bi], tables[ti]) :
         LET b == bases[bi]
             t == tables[ti]
             nxt == IF ok THEN AfterTable ELSE AfterFetchFailure
         IN  /\ ok \/ recs = <<>>
             /\ calls' = Append(calls,
                    Call("data", "GET", b, TableName(t), 0,
                         Formula(query_text), ok, recs))
             /\ results' = IF ok
                           THEN Extend(results,
                                  [k \in 1..Len(recs) |-> ResultOf(recs[k])])
                           ELSE results
             /\ pc' = nxt.pc
             /\ bi' = nxt.bi
             /\ ti' = nxt.ti
             /\ ri' = nxt.ri
    /\ UNCHANGED <<request, bases, tables, query_text, deleted, response,
                   responded, airtable>>

QueryGet == QueryGetOf(request)

\* The body of delete()'s record loop: one delete call.
DeleteCallOf(req) ==
    /\ pc = "data"
    /\ req.op = "delete"
    /\ \E ok \in BOOLEAN :
         LET b == bases[bi]
             t == tables[ti]
             r == req.ids[ri]
             nxt == IF ok THEN AfterRecord ELSE AfterDeleteFailure
         IN  /\ calls' = Append(calls,
                    Call("data", "DELETE", b, TableName(t), r, <<>>, ok, <<>>))
             /\ airtable' = IF ok THEN airtable \ {<<b, TableName(t), r>>}
                            ELSE airtable
             /\ deleted' = IF ok THEN deleted + 1 ELSE deleted
             /\ pc' = nxt.pc
             /\ bi' = nxt.bi
             /\ ti' = nxt.ti
             /\ ri' = nxt.ri
    /\ UNCHANGED <<request, bases, tables, query_text, results, response,
                   responded>>

DeleteCall == DeleteCallOf(request)

\* The return statement of the handler.
ReturnOf(req) ==
    /\ pc = "return"
    /\ response' =
         [status |-> 200,
          ids |-> IF req.op = "upsert" THEN results ELSE <<>>,
          results |-> IF req.op = "query" THEN results ELSE <<>>,
          success |-> IF req.op = "delete" THEN DeleteSuccess(deleted)
                      ELSE FALSE]
    /\ responded' = responded + 1
    /\ pc' = AfterResponse
    /\ UNCHANGED <<request, loopVars, query_text, results, deleted, calls,
                   airtable>>

Return == ReturnOf(request)

Next ==
    \/ ReceiveRequest
    \/ ValidateToken
    \/ DeleteCheck
    \/ GetAllBases
    \/ GetAllTables
    \/ UpsertPost
    \/ QueryGet
    \/ DeleteCall
    \/ Return

Spec == Init /\ [][Next]_vars

\* Upstream calls eventually return, so an enabled step is eventually taken.
SpecFair == Spec /\ WF_vars(Next)

\* ------------------------------------------------- vocabulary of the claims
Authorized ==
    request.scheme = "Bearer" /\ request.credentials = BEARER_TOKEN

Finished == pc = "done"
Normal == pc = "done" /\ response.status = 200

RECURSIVE Flatten(_)
Flatten(ss) ==
    IF ss = <<>> THEN <<>>
    ELSE Flatten(SubSeq(ss, 1, Len(ss) - 1)) \o ss[Len(ss)]

IsPrefix(a, b) == Len(a) <= Len(b) /\ a = SubSeq(b, 1, Len(a))

BasesCalls == SelectSeq(calls, LAMBDA c : c.kind = "bases")
TablesCalls == SelectSeq(calls, LAMBDA c : c.kind = "tables")
DataCalls == SelectSeq(calls, LAMBDA c : c.kind = "data")

\* The bases the list-bases call reported, in order.
ListedBases ==
    LET bc == BasesCalls
    IN  Flatten([i \in 1..Len(bc) |-> bc[i].ret])

\* The (base, table) pairs the list-tables calls reported so far, in order.
ListedPairs ==
    LET tc == TablesCalls
    IN  Flatten([i \in 1..Len(tc) |->
            LET c == tc[i]
            IN  [k \in 1..Len(c.ret) |-> <<c.base, TableName(c.ret[k])>>]])

\* The base x table x id combinations, in nested order.
ListedCombinations ==
    LET lp == ListedPairs
        ids == request.ids
    IN  Flatten([i \in 1..Len(lp) |->
            LET p == lp[i]
            IN  [k \in 1..Len(ids) |-> <<p[1], p[2], ids[k]>>]])

PairsCalled ==
    LET dc == DataCalls
    IN  [i \in 1..Len(dc) |-> <<dc[i].base, dc[i].table>>]

CombinationsCalled ==
    LET dc == DataCalls
    IN  [i \in 1..Len(dc) |-> <<dc[i].base, dc[i].table, dc[i].rec>>]

\* Every listed base had its tables listed.
BasesComplete ==
    LET tc == TablesCalls
    IN  [i \in 1..Len(tc) |-> tc[i].base] = ListedBases

\* Every listed base had its tables listed, every listed pair its data call.
EnumerationComplete == BasesComplete /\ PairsCalled = ListedPairs

\* C1: on every endpoint a request whose scheme is not "Bearer" or whose
\* token is not BEARER_TOKEN is answered 401 and issues no Airtable call; a
\* request with both matching passes the guard and its handler runs.
Thm_C1 ==
    pc \notin {"idle", "validate_token"} =>
        IF Authorized
        THEN /\ response.status # 401
             /\ pc = "done" => response.status \in {200, 400, 500}
        ELSE /\ pc = "done"
             /\ response.status = 401
             /\ responded = 1
             /\ calls = <<>>

Wit_C1 ==
    /\ pc = "done"
    /\ response.status = 401
    /\ request.scheme = "bearer"
    /\ request.credentials = BEARER_TOKEN
    /\ request.op = "upsert"

\* C2: an authenticated delete whose id list is empty or absent is answered
\* 400, and no Airtable call has been issued when that answer is produced.
Thm_C2 ==
    (request.op = "delete" /\ Authorized
       /\ (~ request.ids_given \/ request.ids = <<>>)) =>
        /\ calls = <<>>
        /\ pc \notin {"validate_token", "delete_check"} =>
              (pc = "done" /\ response.status = 400 /\ responded = 1)

Wit_C2 ==
    /\ pc = "done"
    /\ request.op = "delete"
    /\ request.ids_given
    /\ request.ids = <<>>
    /\ response.status = 400

\* C3: the ids of the upsert response are exactly the ids the successful
\* create calls returned, in call order; a failed create call adds no id and
\* never turns the response into an error: whatever the create calls did,
\* the request ends with the UpsertResponse once every metadata call
\* succeeded.
CreatedIds ==
    LET dc == DataCalls
    IN  Flatten([i \in 1..Len(dc) |-> IF dc[i].ok THEN dc[i].ret ELSE <<>>])

Thm_C3 ==
    request.op = "upsert" =>
        /\ results = CreatedIds
        /\ Normal => response.ids = CreatedIds
        /\ (Finished /\ Authorized
              /\ \A i \in 1..Len(calls) : calls[i].kind # "data" => calls[i].ok)
              => response.status = 200

Wit_C3 ==
    /\ request.op = "upsert"
    /\ Normal
    /\ Len(DataCalls) >= 3
    /\ \E i, j \in 1..Len(DataCalls) :
          /\ ~ DataCalls[i].ok
          /\ DataCalls[j].ok
          /\ DataCalls[j].ret # <<>>
    /\ response.ids # <<>>

\* C4: the query response holds exactly the records of the fetches that
\* succeeded, over every (base, table) pair the metadata calls listed; a
\* failed fetch adds nothing and the pairs after it are still fetched.
FetchedResults ==
    LET dc == DataCalls
    IN  Flatten([i \in 1..Len(dc) |->
            LET c == dc[i]
            IN  IF c.ok THEN [k \in 1..Len(c.ret) |-> ResultOf(c.ret[k])]
                ELSE <<>>])

Thm_C4 ==
    request.op = "query" =>
        /\ IsPrefix(PairsCalled, ListedPairs)
        /\ Normal => /\ EnumerationComplete
                     /\ response.results = FetchedResults

Wit_C4 ==
    /\ request.op = "query"
    /\ Normal
    /\ \E i, j \in 1..Len(DataCalls) :
          /\ i < j
          /\ ~ DataCalls[i].ok
          /\ DataCalls[j].ok
          /\ DataCalls[j].ret # <<>>
    /\ response.results # <<>>

\* C5: the DeleteResponse of a delete request with a non-empty id list has
\* success = TRUE iff at least one of the attempted delete calls succeeded,
\* and success = FALSE when all failed or none was attempted.
Thm_C5 ==
    (request.op = "delete" /\ Normal) =>
        /\ request.ids # <<>>
        /\ response.success <=>
              \E i \in 1..Len(calls) : calls[i].kind = "data" /\ calls[i].ok

Wit_C5 ==
    /\ request.op = "delete"
    /\ Normal
    /\ response.success
    /\ Cardinality({i \in 1..Len(DataCalls) : DataCalls[i].ok}) = 1
    /\ Cardinality({i \in 1..Len(DataCalls) : ~ DataCalls[i].ok}) >= 2

\* C6: whenever an Airtable call of the request failed (list-bases,
\* list-tables or a data call), the request still ends with its normal
\* response and not with an error.
Cex_C6 ==
    (Finished /\ \E i \in 1..Len(calls) : ~ calls[i].ok) =>
        response.status = 200

\* C7: only queries[0] is honored: every filtered fetch carries the text of
\* queries[0], one fetch is issued per listed (base, table) pair whatever the
\* batch length, and every step of the request is also a step of any request
\* that agrees on queries[0] and differs in the later queries (same calls,
\* same results, same response for the same Airtable answers).
C7_Inv ==
    (request.op = "query" /\ request.queries # <<>>) =>
        /\ \A i \in 1..Len(calls) :
              calls[i].kind = "data" =>
                  /\ calls[i].method = "GET"
                  /\ calls[i].param = Formula(request.queries[1].query)
        /\ Len(DataCalls) <= Len(ListedPairs)
        /\ Normal => Len(DataCalls) = Len(ListedPairs)

C7_Step ==
    (request.op = "query" /\ request.queries # <<>>) =>
        \A q \in SeqsUpTo({ [query |-> t] : t \in Texts }, MaxQueries) :
            (q # <<>> /\ q[1] = request.queries[1]) =>
                LET other == [request EXCEPT !.queries = q]
                IN  \/ ValidateTokenOf(other)
                    \/ GetAllBasesOf(other)
                    \/ GetAllTables
                    \/ QueryGetOf(other)
                    \/ ReturnOf(other)

Thm_C7 == [] C7_Inv /\ [][C7_Step]_vars

Wit_C7 ==
    /\ request.op = "query"
    /\ Normal
    /\ Len(request.queries) = 2
    /\ request.queries[1] # request.queries[2]
    /\ Len(DataCalls) >= 2
    /\ response.results # <<>>

\* C8: a delete request with a non-empty id list issues one delete call per
\* entry of the id list for every listed base x table, one after the other
\* in nested base, table, id order; no delete call, failed or successful,
\* stops or skips a later combination.
Thm_C8 ==
    request.op = "delete" =>
        /\ IsPrefix(CombinationsCalled, ListedCombinations)
        /\ \A i \in 1..Len(calls) :
              calls[i].kind = "data" => calls[i].method = "DELETE"
        /\ Normal => /\ BasesComplete
                     /\ CombinationsCalled = ListedCombinations

Wit_C8 ==
    /\ request.op = "delete"
    /\ Normal
    /\ Len(DataCalls) = 8
    /\ ~ DataCalls[1].ok
    /\ DataCalls[2].ok
    /\ ~ DataCalls[3].ok

\* C9: no rollback: an upsert issues only create calls, and what a
\* successful create call stored stays in Airtable when a later create call
\* fails; a delete issues only delete calls and what it deleted stays
\* deleted.
Thm_C9 ==
    \A i \in 1..Len(calls) :
        LET c == calls[i]
        IN  c.kind = "data" =>
              /\ request.op = "upsert" =>
                    /\ c.method = "POST"
                    /\ \A k \in 1..Len(c.ret) :
                          <<c.base, c.table, c.ret[k]>> \in airtable
              /\ request.op = "delete" =>
                    /\ c.method = "DELETE"
                    /\ c.ok => <<c.base, c.table, c.rec>> \notin airtable

Wit_C9 ==
    /\ request.op = "upsert"
    /\ Normal
    /\ \E i, j \in 1..Len(DataCalls) :
          /\ i < j
          /\ DataCalls[i].ok
          /\ DataCalls[i].ret # <<>>
          /\ ~ DataCalls[j].ok
    /\ airtable # InitialAirtable

\* C10: every authenticated request eventually produces a response, produces
\* exactly one, and issues no Airtable call once it is produced.
Thm_C10 ==
    /\ [] (responded <= 1)
    /\ [] (Finished => responded = 1)
    /\ [][responded >= 1 => (calls' = calls /\ responded' = responded)]_vars
    /\ (pc = "validate_token" /\ Authorized) ~> (Finished /\ responded = 1)

Wit_C10 ==
    /\ Finished
    /\ Authorized
    /\ responded = 1
    /\ response.status = 200
    /\ Len(calls) >= 5
====
